---------------------------- MODULE Spec2Model ----------------------------
(***************************************************************************)
(* A model of the Gmail labeller backend (apps/backend): the Composio      *)
(* webhook endpoint, its signature verification, the normalisation of a    *)
(* webhook payload into a GmailMessage, and the background processing of   *)
(* a message.                                                              *)
(*                                                                         *)
(* Text is modelled as a sequence of atoms.  An atom is a TLA+ string that *)
(* stands for one character (or one byte) of the text, except for the      *)
(* base64 text of an HMAC digest, which is one atom (see                   *)
(* ExpectedSignature).                                                     *)
(***************************************************************************)
EXTENDS Naturals, Sequences, FiniteSets, TLC

VARIABLES
    COMPOSIO_WEBHOOK_SECRET,    \* the configured secret, "" when not set
    prompt,     \* the prompt loaded when the process starts, or None
    prompts,    \* the rows of the prompts table
    slots,      \* per request: the request, the handler's outcome, its task
    vreq,       \* a request handed to verify_webhook_signature on its own
    vres,       \* its outcome (NotVerified before the call)
    npayload,   \* a payload handed to GmailMessage.from_composio_payload on its own
    nres,       \* its outcome (NotNormalized before the call)
    dreq,       \* a lookup handed to get_user_prompt on its own
    dres,       \* its outcome (NotResolved before the call)
    procs,      \* runs of email_processor.process_gmail_message on their own
    triggers    \* the calls of create_trigger, in the order they are made

vars == <<COMPOSIO_WEBHOOK_SECRET, prompt, prompts, slots, vreq, vres, npayload, nres,
          dreq, dres, procs, triggers>>

---------------------------------------------------------------------------
(* Text helpers *)

\* `x in s` of Python for one character x
Contains(s, x) == \E i \in 1..Len(s) : s[i] = x

\* the index of the first occurrence of x in s (x occurs in s)
FirstIndex(s, x) == CHOOSE i \in 1..Len(s) : s[i] = x /\ \A j \in 1..(i - 1) : s[j] # x

\* s.split(x) for an s that contains x, its first two fields: what a split
\* without the limit of one would give
SplitFields(s, x) ==
    LET i == FirstIndex(s, x)
        rest == SubSeq(s, i + 1, Len(s))
    IN  <<SubSeq(s, 1, i - 1),
          IF Contains(rest, x) THEN SubSeq(rest, 1, FirstIndex(rest, x) - 1) ELSE rest>>

\* s.split(x, 1) for an s that contains x: <<before, after>>
SplitOnce(s, x) ==
    LET i == FirstIndex(s, x)
    IN  <<SubSeq(s, 1, i - 1), SubSeq(s, i + 1, Len(s))>>

\* The atoms that stand for a character outside ASCII (in a str), or for a
\* byte that is no valid UTF-8 (in bytes).
NonAscii == "\\xe9"
BadByte == "\\xff"

IsAscii(s) == ~ Contains(s, NonAscii)

\* bytes.decode('utf-8') succeeds
Utf8Valid(b) == ~ Contains(b, BadByte)

\* A header (or a key of a JSON object) that is not there.
Absent == <<"<absent>">>

\* headers.get(name, default), dict.get(key, default)
Get(value, default) == IF value = Absent THEN default ELSE value

---------------------------------------------------------------------------
(* Signature verification: webhook.py verify_webhook_signature, and the    *)
(* same lines inlined in main.py listen_webhooks                           *)

\* a signing string that leaves the body out
SignedContentWithoutBody(webhook_id, timestamp, body) ==
    webhook_id \o <<".">> \o timestamp \o <<".">>

\* f"{webhook_id}.{timestamp}.{body.decode('utf-8')}"
SignedContent(webhook_id, timestamp, body) ==
    webhook_id \o <<".">> \o timestamp \o <<".">> \o body

\* a digest that depends on the secret and on the length of the signed
\* content alone
ExpectedSignatureOfLength(secret, signed_content) ==
    <<ToString(<<"HMAC-SHA256", secret, Len(signed_content)>>)>>

\* base64.b64encode(hmac.new(secret.encode(), signed_content.encode(),
\* hashlib.sha256).digest()).decode(): HMAC-SHA256 is modelled as an ideal
\* keyed hash, a different digest for every (key, message), and the base64
\* text of the digest as one atom.
ExpectedSignature(secret, signed_content) ==
    <<ToString(<<"HMAC-SHA256", secret, signed_content>>)>>

\* The outcomes of the verification block: the signature was compared and
\* matched (Passed), the block was not entered (Skipped), or an exception
\* left the handler with the given status.
Passed == [status |-> 200, detail |-> "verified"]
Skipped == [status |-> 200, detail |-> "skipped"]
Raised(code, what) == [status |-> code, detail |-> what]

\* hmac.compare_digest(signature, expected_signature_b64) on two str: a
\* TypeError when either holds a non-ASCII character.
CompareDigestRaises(signature, expected) == ~ IsAscii(signature) \/ ~ IsAscii(expected)

\* The verification block entered whenever a secret is configured, the
\* signature header there or not
VerifyRequiringSignature(secret, headers, body) ==
    LET signature_header == Get(headers.signature, <<>>)
        expected == ExpectedSignature(secret, SignedContent(Get(headers.id, <<>>),
                                                              Get(headers.timestamp, <<>>), body))
    IN  IF secret = "" THEN Skipped
        ELSE IF ~ Contains(signature_header, ",")
        THEN Raised(401, "Invalid signature format")
        ELSE IF ~ Utf8Valid(body) THEN Raised(500, "UnicodeDecodeError")
        ELSE IF ~ IsAscii(SplitOnce(signature_header, ",")[2]) THEN Raised(500, "TypeError")
        ELSE IF SplitOnce(signature_header, ",")[2] # expected
        THEN Raised(401, "Invalid webhook signature")
        ELSE Passed

\* The outcome of the verification block for a request: Passed or Skipped,
\* or the HTTPException(401) it raises, or the unhandled exception (a 500).
VerifyWebhookSignature(secret, headers, body) ==
    LET signature_header == Get(headers.signature, <<>>)
        timestamp == Get(headers.timestamp, <<>>)
        webhook_id == Get(headers.id, <<>>)
    IN  IF secret # "" /\ signature_header # <<>>
        THEN IF ~ Contains(signature_header, ",")
             THEN Raised(401, "Invalid signature format")
             ELSE IF ~ Utf8Valid(body)
             THEN Raised(500, "UnicodeDecodeError")
             ELSE LET signature == SplitOnce(signature_header, ",")[2]
                      expected_signature_b64 ==
                          ExpectedSignature(secret, SignedContent(webhook_id, timestamp, body))
                  IN  IF CompareDigestRaises(signature, expected_signature_b64)
                      THEN Raised(500, "TypeError")
                      ELSE IF signature # expected_signature_b64
                      THEN Raised(401, "Invalid webhook signature")
                      ELSE Passed
        ELSE Skipped

---------------------------------------------------------------------------
(* Character tables *)

UpperCase ==
    <<
    "A", "B", "C", "D", "E", "F", "G", "H", "I", "J", "K", "L", "M", "N", "O", "P",
    "Q", "R", "S", "T", "U", "V", "W", "X", "Y", "Z" >>

LowerCase ==
    <<
    "a", "b", "c", "d", "e", "f", "g", "h", "i", "j", "k", "l", "m", "n", "o", "p",
    "q", "r", "s", "t", "u", "v", "w", "x", "y", "z" >>

\* str.lower() on one character, then on a text
LowerChar(c) ==
    IF \E i \in 1..26 : UpperCase[i] = c
    THEN LowerCase[CHOOSE i \in 1..26 : UpperCase[i] = c]
    ELSE c

Lower(s) == [i \in 1..Len(s) |-> LowerChar(s[i])]

\* needle in s, for two texts
IsSubstring(needle, s) ==
    \E i \in 1..(Len(s) + 1) :
        /\ i + Len(needle) - 1 <= Len(s)
        /\ SubSeq(s, i, i + Len(needle) - 1) = needle

\* The standard base64 alphabet: the character at index i + 1 has value i.
B64Alphabet ==
    <<
    "A", "B", "C", "D", "E", "F", "G", "H", "I", "J", "K", "L", "M", "N", "O", "P",
    "Q", "R", "S", "T", "U", "V", "W", "X", "Y", "Z", "a", "b", "c", "d", "e", "f",
    "g", "h", "i", "j", "k", "l", "m", "n", "o", "p", "q", "r", "s", "t", "u", "v",
    "w", "x", "y", "z", "0", "1", "2", "3", "4", "5", "6", "7", "8", "9", "+", "/" >>

---------------------------------------------------------------------------
(* base64.urlsafe_b64decode(body_data).decode("utf-8", errors="replace")   *)

\* bytes.translate of urlsafe_b64decode: '-' becomes '+', '_' becomes '/'
UrlsafeTranslate(c) == IF c = "-" THEN "+" ELSE IF c = "_" THEN "/" ELSE c

IsB64Char(c) == \E i \in 1..64 : B64Alphabet[i] = c

B64Value(c) == (CHOOSE i \in 1..64 : B64Alphabet[i] = c) - 1

\* binascii.a2b_base64 without strict_mode, from character i of s on: a
\* character outside the alphabet is skipped, '=' counts as padding only
\* from the third character of a quad on, and the decoding stops at a
\* complete padding.  quad_pos, pads and leftchar are the C locals, out the
\* bytes written so far.  The result is the bytes, or binascii.Error when
\* the data ends inside a quad.
RECURSIVE A2bBase64(_, _, _, _, _, _)
A2bBase64(s, i, quad_pos, pads, leftchar, out) ==
    IF i > Len(s)
    THEN IF quad_pos # 0
         THEN [err |-> "binascii.Error", bytes |-> <<>>]
         ELSE [err |-> "none", bytes |-> out]
    ELSE LET c == UrlsafeTranslate(s[i])
         IN  IF c = "="
             THEN IF quad_pos >= 2 /\ quad_pos + pads + 1 >= 4
                  THEN [err |-> "none", bytes |-> out]
                  ELSE A2bBase64(s, i + 1, quad_pos,
                                 IF quad_pos >= 2 THEN pads + 1 ELSE pads, leftchar, out)
             ELSE IF ~ IsB64Char(c)
             THEN A2bBase64(s, i + 1, quad_pos, pads, leftchar, out)
             ELSE LET v == B64Value(c)
                  IN  CASE quad_pos = 0 ->
                             A2bBase64(s, i + 1, 1, 0, v, out)
                        [] quad_pos = 1 ->
                             A2bBase64(s, i + 1, 2, 0, v % 16,
                                       Append(out, leftchar * 4 + v \div 16))
                        [] quad_pos = 2 ->
                             A2bBase64(s, i + 1, 3, 0, v % 4,
                                       Append(out, leftchar * 16 + v \div 4))
                        [] OTHER ->
                             A2bBase64(s, i + 1, 0, 0, 0,
                                       Append(out, leftchar * 64 + v))

\* U+FFFD, what errors="replace" puts for a byte that is no UTF-8
ReplacementChar == 65533

\* bytes.decode("utf-8", errors="replace"), as the code points of the
\* text: exact for ASCII bytes and for the bytes 0xF8..0xFF, which start
\* no UTF-8 sequence (each is replaced on its own); the body data of the
\* model decode to no other byte.
Utf8DecodeReplace(bytes) ==
    [i \in 1..Len(bytes) |-> IF bytes[i] < 128 THEN bytes[i] ELSE ReplacementChar]

\* base64.urlsafe_b64decode(body_data).decode("utf-8", errors="replace")
\* for a str body_data: ValueError (not a binascii.Error) when the str
\* holds a non-ASCII character, binascii.Error from a2b_base64, or the text.
DecodeBody(body_data) ==
    IF ~ IsAscii(body_data)
    THEN [err |-> "ValueError", text |-> <<>>]
    ELSE LET r == A2bBase64(body_data, 1, 0, 0, 0, <<>>)
         IN  [err |-> r.err, text |-> Utf8DecodeReplace(r.bytes)]

---------------------------------------------------------------------------
(* JSON values.  A text-valued key holds a text, or Absent (the key is not *)
(* in the object), or JNull, or JNumber.  An object- or list-valued key    *)
(* holds a record with a kind: "absent", "null", "object" or "list" (and   *)
(* "string" for a text where an object is expected).                       *)

JNull == <<"<null>">>
JNumber == <<"<number>">>

IsStr(v) == v \notin {Absent, JNull, JNumber}

\* Python's None
None == [some |-> FALSE, val |-> <<>>]
Some(v) == [some |-> TRUE, val |-> v]

\* dict.get(key): None for a key that is not there; None is JNull here
GetOrNone(value) == Get(value, JNull)

\* bool(v) for a text-valued v: None and "" are falsy
TruthyText(v) == v \notin {Absent, JNull, <<>>}

TextPlain == <<"t", "e", "x", "t", "/", "p", "l", "a", "i", "n">>
TextHtml == <<"t", "e", "x", "t", "/", "h", "t", "m", "l">>

---------------------------------------------------------------------------
(* models.py GmailMessage.from_composio_payload                            *)

\* The fields of a GmailMessage (models.py lines 19-51)
StrFields ==
    {"connection_id", "connection_nano_id", "trigger_id", "trigger_nano_id",
     "user_id", "id", "thread_id", "sender", "to", "subject"}

\* What a failed normalisation carries in place of a message
NoMessage ==
    [connection_id |-> <<>>, connection_nano_id |-> <<>>, trigger_id |-> <<>>,
     trigger_nano_id |-> <<>>, user_id |-> <<>>, id |-> <<>>, thread_id |-> <<>>,
     sender |-> <<>>, to |-> <<>>, subject |-> <<>>,
     timestamp |-> [source |-> "utcnow", millis |-> 0], labels |-> <<>>,
     text_body |-> None, html_body |-> None]

\* from_composio_payload raises `what`: no message is returned
Failed(what) == [ok |-> FALSE, err |-> what, msg |-> NoMessage]

\* part.get("body", {}).get("data"), message_data...get("body", {}).get("data")
BodyData(body) == IF body.kind = "absent" THEN JNull ELSE GetOrNone(body.data)

\* One pass of `for part in parts` (lines 74-91) from part i on.  acc holds
\* text_body and html_body so far; the result is acc after the loop, or the
\* exception that leaves the loop: only binascii.Error and
\* UnicodeDecodeError are caught.
RECURSIVE ScanParts(_, _, _)
ScanParts(parts, i, acc) ==
    IF i > Len(parts)
    THEN [err |-> "none", text_body |-> acc.text_body, html_body |-> acc.html_body]
    ELSE LET part == parts[i]
             mime_type == GetOrNone(part.mimeType)
             body_data == BodyData(part.body)
         IN  IF ~ TruthyText(body_data)
             THEN ScanParts(parts, i + 1, acc)
             ELSE LET d == DecodeBody(body_data)
                  IN  CASE d.err = "none" /\ mime_type = TextPlain ->
                             ScanParts(parts, i + 1, [acc EXCEPT !.text_body = Some(d.text)])
                        [] d.err = "none" /\ mime_type = TextHtml ->
                             ScanParts(parts, i + 1, [acc EXCEPT !.html_body = Some(d.text)])
                        [] d.err = "none" /\ mime_type \notin {TextPlain, TextHtml} ->
                             ScanParts(parts, i + 1, acc)
                        [] d.err = "binascii.Error" ->
                             ScanParts(parts, i + 1, acc)
                        [] OTHER ->
                             [err |-> d.err, text_body |-> None, html_body |-> None]

\* The single-part branch (lines 92-103): the top-level body data
SinglePart(body) ==
    LET body_data == BodyData(body)
    IN  IF ~ TruthyText(body_data)
        THEN [err |-> "none", text_body |-> None, html_body |-> None]
        ELSE LET d == DecodeBody(body_data)
             IN  CASE d.err = "none" ->
                        [err |-> "none", text_body |-> Some(d.text), html_body |-> None]
                   [] d.err = "binascii.Error" ->
                        [err |-> "none", text_body |-> None, html_body |-> None]
                   [] OTHER ->
                        [err |-> d.err, text_body |-> None, html_body |-> None]

\* ParseBody with the test of `parts` lost: the top-level body is read
\* whether or not the payload has parts.
ParseBodyIgnoringParts(payload) == SinglePart(payload.body)

\* Body parsing (lines 67-103) for a payload object: `if parts:` is false
\* for a missing key, null and the empty list.
ParseBody(payload) ==
    IF payload.parts.kind = "list" /\ payload.parts.items # <<>>
    THEN ScanParts(payload.parts.items, 1, [text_body |-> None, html_body |-> None])
    ELSE SinglePart(payload.body)

HdrFrom == <<"f", "r", "o", "m">>
HdrTo == <<"t", "o">>
HdrSubject == <<"s", "u", "b", "j", "e", "c", "t">>

\* `for header in headers` (lines 111-119) from header i on: every match
\* assigns, so a later header of the same name overwrites an earlier one.
RECURSIVE ScanHeaders(_, _, _)
ScanHeaders(headers, i, acc) ==
    IF i > Len(headers)
    THEN acc
    ELSE LET name == Lower(Get(headers[i].name, <<>>))
             value == Get(headers[i].value, <<>>)
         IN  CASE name = HdrFrom -> ScanHeaders(headers, i + 1, [acc EXCEPT !.sender = value])
               [] name = HdrTo -> ScanHeaders(headers, i + 1, [acc EXCEPT !.to = value])
               [] name = HdrSubject -> ScanHeaders(headers, i + 1, [acc EXCEPT !.subject = value])
               [] OTHER -> ScanHeaders(headers, i + 1, acc)

\* The header loop with a guard that keeps the first value of a name
RECURSIVE ScanHeadersKeepFirst(_, _, _)
ScanHeadersKeepFirst(headers, i, acc) ==
    IF i > Len(headers)
    THEN acc
    ELSE LET name == Lower(Get(headers[i].name, <<>>))
             value == Get(headers[i].value, <<>>)
         IN  CASE name = HdrFrom /\ acc.sender = <<>> ->
                    ScanHeadersKeepFirst(headers, i + 1, [acc EXCEPT !.sender = value])
               [] name = HdrTo /\ acc.to = <<>> ->
                    ScanHeadersKeepFirst(headers, i + 1, [acc EXCEPT !.to = value])
               [] name = HdrSubject /\ acc.subject = <<>> ->
                    ScanHeadersKeepFirst(headers, i + 1, [acc EXCEPT !.subject = value])
               [] OTHER -> ScanHeadersKeepFirst(headers, i + 1, acc)

ExtractHeadersKeepFirst(headers) ==
    ScanHeadersKeepFirst(headers, 1, [sender |-> <<>>, to |-> <<>>, subject |-> <<>>])

ExtractHeaders(headers) ==
    ScanHeaders(headers, 1, [sender |-> <<>>, to |-> <<>>, subject |-> <<>>])

IsDigit(c) == c \in {"0", "1", "2", "3", "4", "5", "6", "7", "8", "9"}

DigitValue(c) ==
    CASE c = "0" -> 0 [] c = "1" -> 1 [] c = "2" -> 2 [] c = "3" -> 3 [] c = "4" -> 4
      [] c = "5" -> 5 [] c = "6" -> 6 [] c = "7" -> 7 [] c = "8" -> 8 [] OTHER -> 9

\* int(s) for a text of digits
RECURSIVE ParseInt(_)
ParseInt(s) ==
    IF s = <<>> THEN 0
    ELSE 10 * ParseInt(SubSeq(s, 1, Len(s) - 1)) + DigitValue(s[Len(s)])

\* Timestamp (lines 121-126): the epoch milliseconds of internalDate, or
\* the clock when internalDate is missing or falsy; int() raises ValueError
\* on a text that is no number.
ExtractTimestamp(internal_date) ==
    IF ~ TruthyText(internal_date)
    THEN [err |-> "none", timestamp |-> [source |-> "utcnow", millis |-> 0]]
    ELSE IF \A i \in 1..Len(internal_date) : IsDigit(internal_date[i])
    THEN [err |-> "none",
          timestamp |-> [source |-> "internalDate", millis |-> ParseInt(internal_date)]]
    ELSE [err |-> "ValueError", timestamp |-> [source |-> "utcnow", millis |-> 0]]

\* pydantic's check of a required `str` field: any str passes, the empty
\* one too; None does not.
ValidStr(v) == v # JNull

\* The GmailMessage(...) call (lines 130-148) on the data object and the
\* values extracted so far: .get(key, "") puts "" for a missing key.
Construct(message_data, hdr, timestamp, body) ==
    LET m == [connection_id |-> Get(message_data.connection_id, <<>>),
              connection_nano_id |-> Get(message_data.connection_nano_id, <<>>),
              trigger_id |-> Get(message_data.trigger_id, <<>>),
              trigger_nano_id |-> Get(message_data.trigger_nano_id, <<>>),
              user_id |-> Get(message_data.user_id, <<>>),
              id |-> Get(message_data.id, <<>>),
              thread_id |-> Get(message_data.threadId, <<>>),
              sender |-> hdr.sender,
              to |-> hdr.to,
              subject |-> hdr.subject,
              timestamp |-> timestamp,
              labels |-> IF message_data.labelIds.kind = "absent"
                         THEN <<>> ELSE message_data.labelIds.items,
              text_body |-> body.text_body,
              html_body |-> body.html_body]
    IN  IF /\ \A f \in StrFields : ValidStr(m[f])
           /\ message_data.labelIds.kind \in {"absent", "list"}
        THEN [ok |-> TRUE, err |-> "none", msg |-> m]
        ELSE Failed("ValidationError")

\* message_data.get("payload", {}): {} for a payload key that is not there
PayloadOf(message_data) ==
    IF message_data.payload.kind = "absent"
    THEN [kind |-> "object",
          parts |-> [kind |-> "absent", items |-> <<>>],
          body |-> [kind |-> "absent", data |-> Absent],
          headers |-> [kind |-> "absent", items |-> <<>>]]
    ELSE message_data.payload

\* from_composio_payload without the test of lines 63-65 for a missing
\* 'data' key: the first .get on the None that payload.get("data") gives raises
FromComposioPayloadWithoutDataCheck(payload) ==
    LET message_data == payload.data
    IN  IF message_data.kind \in {"absent", "null"}
        THEN Failed("AttributeError")
        ELSE IF message_data.kind # "object" \/ message_data.payload.kind = "null"
        THEN Failed("AttributeError")
        ELSE LET body == ParseBody(PayloadOf(message_data))
                 headers == PayloadOf(message_data).headers
             IN  IF body.err # "none"
                 THEN Failed(body.err)
                 ELSE IF headers.kind = "null"
                 THEN Failed("TypeError")
                 ELSE LET hdr == ExtractHeaders(IF headers.kind = "absent"
                                                THEN <<>> ELSE headers.items)
                          ts == ExtractTimestamp(message_data.internalDate)
                      IN  IF ts.err # "none"
                          THEN Failed(ts.err)
                          ELSE Construct(message_data, hdr, ts.timestamp, body)

\* GmailMessage.from_composio_payload(payload) (lines 57-152): the message,
\* or the exception raised, in the order the code reaches them.
FromComposioPayload(payload) ==
    LET message_data == payload.data
    IN  IF message_data.kind \in {"absent", "null", "empty"}
        THEN Failed("MissingData")
        ELSE IF message_data.kind # "object" \/ message_data.payload.kind = "null"
        THEN Failed("AttributeError")
        ELSE LET body == ParseBody(PayloadOf(message_data))
                 headers == PayloadOf(message_data).headers
             IN  IF body.err # "none"
                 THEN Failed(body.err)
                 ELSE IF headers.kind = "null"
                 THEN Failed("TypeError")
                 ELSE LET hdr == ExtractHeaders(IF headers.kind = "absent"
                                                THEN <<>> ELSE headers.items)
                          ts == ExtractTimestamp(message_data.internalDate)
                      IN  IF ts.err # "none"
                          THEN Failed(ts.err)
                          ELSE Construct(message_data, hdr, ts.timestamp, body)

---------------------------------------------------------------------------
(* The payloads the normaliser is run on *)

\* the most parts and the most headers of a payload
MaxParts == 2
MaxHeaders == 2

B64Hi == <<"a", "G", "k", "=">>          \* "hi"
B64P == <<"P", "H", "A", "-">>           \* "<p>", with the urlsafe '-'
B64BadPadding == <<"a", "G", "k">>    \* binascii.Error: Incorrect padding
B64Junk == <<"!", "!">>                \* no base64 character: decodes to ""
B64FF == <<"/", "w", "=", "=">>          \* the byte 0xFF
B64NonAscii == <<"a", NonAscii>>      \* a str that is not ASCII

TextHi == <<104, 105>>
TextP == <<60, 112, 62>>

ImagePng == <<"i", "m", "a", "g", "e", "/", "p", "n", "g">>

NoBody == [kind |-> "absent", data |-> Absent]
BodyOf(d) == [kind |-> "object", data |-> d]

PartDatas == {Absent, B64Hi, B64P, B64BadPadding, B64FF, B64NonAscii}

Parts ==
    {[mimeType |-> m, body |-> BodyOf(d)] : m \in {TextPlain, TextHtml, ImagePng}, d \in PartDatas}
    \cup {[mimeType |-> Absent, body |-> BodyOf(B64Hi)], [mimeType |-> TextPlain, body |-> NoBody]}

TopBodies ==
    {NoBody} \cup {BodyOf(d) : d \in {Absent, <<>>, B64Hi, B64BadPadding, B64Junk, B64NonAscii}}

SeqsUpTo(S, n) == UNION {[1..k -> S] : k \in 0..n}

NoList == [kind |-> "absent", items |-> <<>>]
NullList == [kind |-> "null", items |-> <<>>]
ListOf(items) == [kind |-> "list", items |-> items]

HeaderNames ==
    {<<"F", "r", "o", "m">>, <<"f", "r", "o", "m">>, <<"F", "R", "O", "M">>, <<"T", "o">>, <<"S", "U", "B", "J", "E", "C", "T">>, <<"X", "-", "I", "d">>, Absent}

HeaderValues == {<<"a">>, <<"b">>, Absent}

Headers ==
    {[name |-> n, value |-> v] : n \in HeaderNames, v \in HeaderValues}
    \cup {[name |-> <<"f", "r", "o", "m">>, value |-> JNull]}

GoodHeaders ==
    << [name |-> <<"F", "r", "o", "m">>, value |-> <<"a">>],
       [name |-> <<"T", "o">>, value |-> <<"b">>],
       [name |-> <<"S", "u", "b", "j", "e", "c", "t">>, value |-> <<"s">>] >>

GoodPayload ==
    [kind |-> "object",
     parts |-> ListOf(<< [mimeType |-> TextPlain, body |-> BodyOf(B64Hi)],
                         [mimeType |-> TextHtml, body |-> BodyOf(B64P)] >>),
     body |-> NoBody,
     headers |-> ListOf(GoodHeaders)]

Inbox == <<"I", "N", "B", "O", "X">>

GoodData ==
    [kind |-> "object",
     connection_id |-> <<"c", "1">>,
     connection_nano_id |-> <<"c", "n">>,
     trigger_id |-> <<"t", "1">>,
     trigger_nano_id |-> <<"t", "n">>,
     user_id |-> <<"u", "1">>,
     id |-> <<"m", "1">>,
     threadId |-> <<"h", "1">>,
     payload |-> GoodPayload,
     internalDate |-> <<"1", "5", "0", "0">>,
     labelIds |-> ListOf(<<Inbox>>)]

\* a `data` that is not an object with keys: no key, null, {} or a str
DataOfKind(k) == [GoodData EXCEPT !.kind = k]

\* payloads that differ in their parts and their top-level body
BodyPayloads ==
    {[GoodData EXCEPT !.payload.parts = ps, !.payload.body = b] :
        ps \in {NoList, NullList} \cup {ListOf(x) : x \in SeqsUpTo(Parts, MaxParts)},
        b \in TopBodies}

\* payloads that differ in their headers
HeaderPayloads ==
    {[GoodData EXCEPT !.payload.headers = hs] :
        hs \in {NoList, NullList} \cup {ListOf(x) : x \in SeqsUpTo(Headers, MaxHeaders)}}

FieldValues(good) == {good, Absent, <<>>, JNull}

\* payloads that differ in their identity and routing keys
FieldPayloads ==
    {[GoodData EXCEPT !.connection_id = c, !.connection_nano_id = cn, !.trigger_id = t,
                      !.trigger_nano_id = tn, !.user_id = u, !.id = i, !.threadId = th] :
        c \in FieldValues(<<"c", "1">>), cn \in {<<"c", "n">>, Absent, JNull},
        t \in {<<"t", "1">>, Absent, JNull}, tn \in {<<"t", "n">>, Absent, JNull},
        u \in FieldValues(<<"u", "1">>), i \in FieldValues(<<"m", "1">>),
        th \in {<<"h", "1">>, Absent, JNull}}

\* payloads that differ in the shape of data, payload, internalDate, labelIds
ShapePayloads ==
    {DataOfKind(k) : k \in {"absent", "null", "empty", "string"}}
    \cup {[GoodData EXCEPT !.payload.kind = k, !.internalDate = d, !.labelIds = l] :
            k \in {"absent", "null", "object"},
            d \in {Absent, JNull, <<>>, <<"0">>, <<"1", "5", "0", "0">>, <<"x">>},
            l \in {NoList, NullList, ListOf(<<>>), ListOf(<<Inbox, Inbox>>)}}

NormInputs ==
    {[data |-> d] : d \in BodyPayloads \cup HeaderPayloads \cup FieldPayloads \cup ShapePayloads}

NotNormalized == [ok |-> FALSE, err |-> "not run", msg |-> NoMessage]

---------------------------------------------------------------------------
(* The webhook endpoint: main.py listen_webhooks and the background task   *)
(* it schedules, main.py process_gmail_message                             *)

\* the requests the process receives in a run
NumRequests == 2

Slots == 1..NumRequests

TypeGmailNewMessage ==
    <<"g", "m", "a", "i", "l", "_", "n", "e", "w", "_", "m", "e", "s", "s", "a", "g", "e">>
TypeGmailUpper ==
    <<"G", "M", "A", "I", "L", "_", "N", "E", "W", "_", "G", "M", "A", "I", "L", "_", "M", "E", "S", "S", "A", "G", "E">>
TypeSlack == <<"s", "l", "a", "c", "k", "_", "m", "e", "s", "s", "a", "g", "e">>
Gmail == <<"g", "m", "a", "i", "l">>

\* the message Composio sends for the second user
DataOfUser2 == [GoodData EXCEPT !.user_id = <<"u", "2">>, !.id = <<"m", "2">>]

WebhookData(type, data) == [kind |-> "object", type |-> type, data |-> data]

\* The JSON documents of the model, each one atom of a body, with the
\* value json.loads gives for it.
JsonDocuments ==
    [doc \in {"[]", "{}", "{type:null}", "{type:5}", "{type:slack,data}",
              "{type:gmail_new_message,data:u1}", "{type:GMAIL_NEW_GMAIL_MESSAGE,data:u2}",
              "{type:gmail_new_message}", "{type:gmail_new_message,data:{}}",
              "{type:gmail_new_message,data:no-user_id}",
              "{type:gmail_new_message,data:user_id-null}",
              "{type:gmail_new_message,data:non-ascii-part}",
              "{type:gmail_new_message,data:str}"} |->
        CASE doc = "[]" -> [WebhookData(Absent, DataOfKind("absent")) EXCEPT !.kind = "array"]
          [] doc = "{}" -> WebhookData(Absent, DataOfKind("absent"))
          [] doc = "{type:null}" -> WebhookData(JNull, GoodData)
          [] doc = "{type:5}" -> WebhookData(JNumber, GoodData)
          [] doc = "{type:slack,data}" -> WebhookData(TypeSlack, GoodData)
          [] doc = "{type:gmail_new_message,data:u1}" -> WebhookData(TypeGmailNewMessage, GoodData)
          [] doc = "{type:GMAIL_NEW_GMAIL_MESSAGE,data:u2}" -> WebhookData(TypeGmailUpper, DataOfUser2)
          [] doc = "{type:gmail_new_message}" ->
                 WebhookData(TypeGmailNewMessage, DataOfKind("absent"))
          [] doc = "{type:gmail_new_message,data:{}}" ->
                 WebhookData(TypeGmailNewMessage, DataOfKind("empty"))
          [] doc = "{type:gmail_new_message,data:no-user_id}" ->
                 WebhookData(TypeGmailNewMessage, [GoodData EXCEPT !.user_id = Absent])
          [] doc = "{type:gmail_new_message,data:user_id-null}" ->
                 WebhookData(TypeGmailNewMessage, [GoodData EXCEPT !.user_id = JNull])
          [] doc = "{type:gmail_new_message,data:non-ascii-part}" ->
                 WebhookData(TypeGmailNewMessage,
                             [GoodData EXCEPT !.payload.parts =
                                 ListOf(<<[mimeType |-> TextPlain, body |-> BodyOf(B64NonAscii)],
                                          [mimeType |-> TextHtml, body |-> BodyOf(B64P)]>>)])
          [] OTHER -> WebhookData(TypeGmailNewMessage, DataOfKind("string"))]

InvalidJson == [WebhookData(Absent, DataOfKind("absent")) EXCEPT !.kind = "invalid"]

\* s without its leading and trailing whitespace
RECURSIVE Strip(_)
Strip(s) ==
    IF s # <<>> /\ Head(s) = " " THEN Strip(Tail(s))
    ELSE IF s # <<>> /\ s[Len(s)] = " " THEN Strip(SubSeq(s, 1, Len(s) - 1))
    ELSE s

\* await request.json(): json.loads of the body.  A body is a JSON text when
\* it is one document, with or without whitespace around it; any other body
\* raises (JSONDecodeError, or UnicodeDecodeError for a body that is no UTF-8).
RequestJson(body) ==
    IF Len(Strip(body)) = 1 /\ Strip(body)[1] \in DOMAIN JsonDocuments
    THEN JsonDocuments[Strip(body)[1]]
    ELSE InvalidJson

\* the test of the type by equality with "gmail_new_message" alone
IsGmailEventExact(webhook_data) ==
    IF webhook_data.type = TypeGmailNewMessage THEN "true"
    ELSE IF webhook_data.type \in {JNull, JNumber} THEN "raises"
    ELSE "false"

\* The test of lines 443-446 on the parsed object: TRUE or FALSE, or
\* "raises" when .lower() is called on a type that is no str.
IsGmailEvent(webhook_data) ==
    IF webhook_data.type = TypeGmailNewMessage THEN "true"
    ELSE IF webhook_data.type \in {JNull, JNumber} THEN "raises"
    ELSE IF IsSubstring(Gmail, Lower(Get(webhook_data.type, <<>>))) THEN "true"
    ELSE "false"

\* The rows of the prompts table
Row(user_id, p) == [user_id |-> user_id, prompt |-> p]
PromptOfUser1 == <<"prompt of u1">>
PromptOfUser2 == <<"prompt of u2">>
DefaultPrompt == <<"Default email processing prompt">>

Stores ==
    {<<>>, <<Row(<<"u", "1">>, PromptOfUser1)>>, <<Row(<<"u", "2">>, PromptOfUser2)>>,
     <<Row(<<"u", "1">>, PromptOfUser1), Row(<<"u", "2">>, PromptOfUser2)>>}

\* supabase.table("prompts").select("*").eq("user_id", user_id).execute().data
SelectPrompts(table, user_id) == SelectSeq(table, LAMBDA row : row.user_id = user_id)

\* The prompt loaded when the process starts (lines 255-268): the prompt of
\* the first row of the table, None for an empty table or a failed query.
LoadInitialPrompt(table, query_fails) ==
    IF query_fails \/ table = <<>> THEN None ELSE Some(table[1].prompt)

\* The prompt for a message (lines 451-466): the loaded prompt or the
\* default text, replaced by the prompt of the first row stored for the
\* user of the message when the user_id is not empty and the query succeeds
\* with a row.
ResolvePrompt(loaded, table, user_id, query_fails) ==
    LET user_prompt == IF loaded.some /\ loaded.val # <<>> THEN loaded.val ELSE DefaultPrompt
    IN  IF user_id # <<>> /\ ~ query_fails /\ SelectPrompts(table, user_id) # <<>>
        THEN SelectPrompts(table, user_id)[1].prompt
        ELSE user_prompt

\* What a run of the handler leaves: the response, and the task it added
\* with background_tasks.add_task, if any.
Outcome(status, webhook_id, stages, norm, looked_up, queued, user_prompt) ==
    [status |-> status, webhook_id |-> webhook_id, stages |-> stages,
     norm_err |-> norm.err, message |-> norm.msg, looked_up |-> looked_up,
     queued |-> queued,
     user_prompt |-> user_prompt]

NotReached == [ok |-> FALSE, err |-> "not reached", msg |-> NoMessage]

\* listen_webhooks (lines 403-480) on a request: the verification block,
\* request.json(), the test of the type, the normalisation, the lookup of
\* the prompt and add_task, in the order of the code.  An HTTPException
\* gives its status, any other exception that leaves the handler a 500.
ListenWebhooks(secret, loaded, table, request, query_fails) ==
    LET webhook_id == Get(request.headers.id, <<>>)
        verdict == VerifyWebhookSignature(secret, request.headers, request.body)
        webhook_data == RequestJson(request.body)
        gmail == IsGmailEvent(webhook_data)
        norm == FromComposioPayload(webhook_data)
    IN  IF verdict.status # 200
        THEN Outcome(verdict.status, <<>>, <<"Received">>, NotReached, FALSE, FALSE, <<>>)
        ELSE IF webhook_data.kind # "object" \/ gmail = "raises"
        THEN Outcome(500, <<>>, <<"Received", "Verified">>, NotReached, FALSE, FALSE, <<>>)
        ELSE IF gmail = "false"
        THEN Outcome(200, webhook_id, <<"Received", "Verified">>, NotReached, FALSE, FALSE, <<>>)
        ELSE IF ~ norm.ok
        THEN Outcome(200, webhook_id, <<"Received", "Verified">>, norm, FALSE, FALSE, <<>>)
        ELSE Outcome(200, webhook_id, <<"Received", "Verified", "Normalized", "Dispatched">>,
                     norm, norm.msg.user_id # <<>>, TRUE,
                     ResolvePrompt(loaded, table, norm.msg.user_id, query_fails))

\* The values of the variables of a part of the model that is not run
NotVerified == [status |-> 0, detail |-> "not run"]

NoRequest == [secret |-> "", headers |-> [signature |-> Absent, timestamp |-> Absent,
                                          id |-> Absent], body |-> <<>>]

NoPayload == [data |-> DataOfKind("absent")]

NoLookup == [table |-> <<>>, user_id |-> <<>>, default_prompt |-> <<>>, query_fails |-> FALSE]

NotResolved == [raised |-> FALSE, value |-> <<"<not run>">>]

NoProcs == <<>>

NoTriggerCalls == <<>>

\* The background task: main.py process_gmail_message (lines 272-302) up
\* to its await.  composio.tools.get raises, or returns a list of tools
\* (empty or not) that is handed to the agent, whose run then starts.
ToolsResults == {"raises", "empty", "tools"}

TaskAfterToolsGet(tools) == IF tools = "raises" THEN "failed" ELSE "processing"

\* The rest of process_gmail_message: Runner.run returns, and the success
\* is logged, or it raises, and the except clause logs the error.
RunResults == {"returns", "raises"}

TaskAfterRun(result) == IF result = "returns" THEN "succeeded" ELSE "failed"

NoOutcome == Outcome(0, <<>>, <<>>, NotReached, FALSE, FALSE, <<>>)

IdleSlot ==
    [pc |-> "idle",
     request |-> [headers |-> [signature |-> Absent, timestamp |-> Absent, id |-> Absent],
                  body |-> <<>>],
     outcome |-> NoOutcome, task |-> "none", tools |-> "none", stages |-> <<>>]

\* The requests sent to the endpoint
SignatureKinds == {"none", "no comma", "valid", "other secret", "non-ascii"}

SignatureOfKind(kind, webhook_id, timestamp, body) ==
    CASE kind = "none" -> Absent
      [] kind = "no comma" -> <<"v", "1">>
      [] kind = "valid" ->
             <<"v", "1", ",">> \o ExpectedSignature("whsec_a", SignedContent(webhook_id, timestamp, body))
      [] kind = "other secret" ->
             <<"v", "1", ",">> \o ExpectedSignature("whsec_b", SignedContent(webhook_id, timestamp, body))
      [] OTHER -> <<"v", "1", ",", NonAscii>>

Request(kind, webhook_id, body) ==
    [headers |-> [signature |-> SignatureOfKind(kind, Get(webhook_id, <<>>), <<"1">>, body),
                  timestamp |-> <<"1">>, id |-> webhook_id],
     body |-> body]

GmailBodyOfUser1 == <<"{type:gmail_new_message,data:u1}">>
GmailBodyOfUser2 == <<"{type:GMAIL_NEW_GMAIL_MESSAGE,data:u2}">>

Bodies ==
    {<<doc>> : doc \in DOMAIN JsonDocuments}
    \cup {<<"{">>, <<BadByte>>, GmailBodyOfUser1 \o <<" ">>}

Requests ==
    {Request("none", <<"w", "1">>, b) : b \in Bodies}
    \cup {Request(k, <<"w", "1">>, b) :
            k \in SignatureKinds, b \in {GmailBodyOfUser1, GmailBodyOfUser2, <<"{">>, <<BadByte>>}}
    \cup {Request("none", Absent, GmailBodyOfUser1)}

Init ==
    /\ triggers = NoTriggerCalls
    /\ COMPOSIO_WEBHOOK_SECRET \in {"", "whsec_a"}
    /\ prompts \in Stores
    /\ \E query_fails \in BOOLEAN : prompt = LoadInitialPrompt(prompts, query_fails)
    /\ slots = [r \in Slots |-> IdleSlot]
    /\ vreq = NoRequest
    /\ vres = NotVerified
    /\ npayload = NoPayload
    /\ nres = NotNormalized
    /\ dreq = NoLookup
    /\ dres = NotResolved
    /\ procs = NoProcs

\* A request arrives at POST /composio/webhook and listen_webhooks runs to
\* its response: with the body read, nothing in the handler suspends.
Webhook(r) ==
    /\ slots[r].pc = "idle"
    /\ \A q \in Slots : q < r => slots[q].pc # "idle"
    /\ \E request \in Requests, query_fails \in BOOLEAN :
          LET outcome == ListenWebhooks(COMPOSIO_WEBHOOK_SECRET, prompt, prompts,
                                        request, query_fails)
          IN  slots' = [slots EXCEPT ![r] =
                  [pc |-> "responded", request |-> request, outcome |-> outcome,
                   task |-> IF outcome.queued THEN "queued" ELSE "none",
                   tools |-> "none", stages |-> outcome.stages]]
    /\ UNCHANGED <<COMPOSIO_WEBHOOK_SECRET, prompt, prompts, vreq, vres, npayload, nres, dreq, dres, procs, triggers>>

\* After the response is sent, the task added by the handler starts: it
\* runs to the await of Runner.run, or fails in composio.tools.get.
StartTask(r) ==
    /\ slots[r].pc = "responded"
    /\ slots[r].task = "queued"
    /\ \E tools \in ToolsResults :
          slots' = [slots EXCEPT
                      ![r].task = TaskAfterToolsGet(tools),
                      ![r].tools = tools,
                      ![r].stages = slots[r].stages \o
                          (IF tools = "raises" THEN <<"Processing", "Failed">>
                           ELSE <<"Processing">>)]
    /\ UNCHANGED <<COMPOSIO_WEBHOOK_SECRET, prompt, prompts, vreq, vres, npayload, nres, dreq, dres, procs, triggers>>

\* a task that is queued again when its agent run raises
FinishTaskRetrying(r) ==
    /\ slots[r].task = "processing"
    /\ \E result \in RunResults :
          slots' = [slots EXCEPT
                      ![r].task = IF result = "returns" THEN "succeeded" ELSE "queued",
                      ![r].stages = Append(slots[r].stages,
                                           IF result = "returns" THEN "Succeeded"
                                           ELSE "Dispatched")]
    /\ UNCHANGED <<COMPOSIO_WEBHOOK_SECRET, prompt, prompts, vreq, vres, npayload, nres,
                   dreq, dres, procs, triggers>>

\* a task whose failure is written back into the response of its request
FinishTaskChangingResponse(r) ==
    /\ slots[r].task = "processing"
    /\ \E result \in RunResults :
          slots' = [slots EXCEPT
                      ![r].task = TaskAfterRun(result),
                      ![r].outcome.status = IF result = "returns" THEN 200 ELSE 500,
                      ![r].stages = Append(slots[r].stages,
                                           IF result = "returns" THEN "Succeeded" ELSE "Failed")]
    /\ UNCHANGED <<COMPOSIO_WEBHOOK_SECRET, prompt, prompts, vreq, vres, npayload, nres,
                   dreq, dres, procs, triggers>>

\* The agent run of a task ends: it returns or it raises.
FinishTask(r) ==
    /\ slots[r].task = "processing"
    /\ \E result \in RunResults :
          slots' = [slots EXCEPT
                      ![r].task = TaskAfterRun(result),
                      ![r].stages = Append(slots[r].stages,
                                           IF result = "returns" THEN "Succeeded" ELSE "Failed")]
    /\ UNCHANGED <<COMPOSIO_WEBHOOK_SECRET, prompt, prompts, vreq, vres, npayload, nres, dreq, dres, procs, triggers>>

Next ==
    \E r \in Slots : Webhook(r) \/ StartTask(r) \/ FinishTask(r)

Spec == Init /\ [][Next]_vars

---------------------------------------------------------------------------
(* The normaliser on its own: from_composio_payload applied to a payload   *)

InitNorm ==
    /\ triggers = NoTriggerCalls
    /\ npayload \in NormInputs
    /\ nres = NotNormalized
    /\ COMPOSIO_WEBHOOK_SECRET = ""
    /\ prompt = None
    /\ prompts = <<>>
    /\ slots = [r \in Slots |-> IdleSlot]
    /\ vreq = NoRequest
    /\ vres = NotVerified
    /\ dreq = NoLookup
    /\ dres = NotResolved
    /\ procs = NoProcs

Normalize ==
    /\ nres = NotNormalized
    /\ nres' = FromComposioPayload(npayload)
    /\ UNCHANGED <<COMPOSIO_WEBHOOK_SECRET, prompt, prompts, slots, npayload, vreq, vres, dreq, dres, procs, triggers>>

NextNorm == Normalize

SpecNorm == InitNorm /\ [][NextNorm]_vars

---------------------------------------------------------------------------
(* Properties of the normaliser (checked under SpecNorm) *)

Normalized == nres # NotNormalized

\* the keys of `data` that carry the identity and the routing of a message,
\* and the fields of the message they fill
IdentityRoutingKeys ==
    {"connection_id", "connection_nano_id", "trigger_id", "trigger_nano_id",
     "user_id", "id", "threadId"}

IdentityRoutingFields ==
    {"connection_id", "connection_nano_id", "trigger_id", "trigger_nano_id",
     "user_id", "id", "thread_id"}

\* C6: normalisation fails closed: when an identity key (id, threadId) or a
\* routing key (connection_id, connection_nano_id, trigger_id,
\* trigger_nano_id, user_id) is missing from the data object, normalisation
\* is rejected and returns no message; so no message that is returned has
\* an empty identity or routing field.
C6_FailsClosed ==
    (Normalized /\ npayload.data.kind = "object") =>
        /\ (\E k \in IdentityRoutingKeys : npayload.data[k] = Absent) => ~ nres.ok
        /\ nres.ok => \A f \in IdentityRoutingFields : nres.msg[f] # <<>>

\* the body field of a message that a part of the given MIME type fills
BodyField(msg, mime_type) == IF mime_type = TextPlain THEN msg.text_body ELSE msg.html_body

\* body data that fail to decode, and body data that decode, with their text
UndecodableDatas == {B64BadPadding, B64NonAscii}
DecodedText(d) == IF d = B64Hi THEN TextHi ELSE IF d = B64P THEN TextP ELSE <<ReplacementChar>>

\* C8: partial-failure isolation: for a payload of two parts, one text/plain
\* and one text/html, in which the data of one part fail to decode (whatever
\* the failure) and the data of the other decode, normalisation returns a
\* message whose field for the failed part is absent and whose field for
\* the other part holds its decoded text.
C8_PartialFailureIsolation ==
    (/\ Normalized
     /\ npayload.data \in BodyPayloads
     /\ npayload.data.payload.parts.kind = "list"
     /\ Len(npayload.data.payload.parts.items) = 2) =>
        LET parts == npayload.data.payload.parts.items
        IN  \A i, j \in 1..2 :
                (/\ {parts[i].mimeType, parts[j].mimeType} = {TextPlain, TextHtml}
                 /\ parts[i].body.kind = "object"
                 /\ parts[j].body.kind = "object"
                 /\ parts[i].body.data \in UndecodableDatas
                 /\ parts[j].body.data \in {B64Hi, B64P, B64FF}) =>
                    /\ nres.ok
                    /\ BodyField(nres.msg, parts[i].mimeType) = None
                    /\ BodyField(nres.msg, parts[j].mimeType) =
                           Some(DecodedText(parts[j].body.data))

\* the texts decoded from the parts of one MIME type: those with body data
\* that decode
DecodedOfType(parts, mime_type) ==
    {DecodeBody(parts[i].body.data).text :
        i \in {k \in 1..Len(parts) :
                 /\ parts[k].mimeType = mime_type
                 /\ parts[k].body.kind = "object"
                 /\ TruthyText(parts[k].body.data)
                 /\ DecodeBody(parts[k].body.data).err = "none"}}

OneOfOrNone(texts) == IF texts = {} THEN {None} ELSE {Some(t) : t \in texts}

HasParts(data) ==
    /\ data.payload.kind = "object"
    /\ data.payload.parts.kind = "list"
    /\ data.payload.parts.items # <<>>

\* C9: body extraction by cases, for a message that is returned.  With a
\* non-empty parts list, text_body is the decoded data of a text/plain
\* part and html_body that of a text/html part, each absent when no part
\* of its type decodes; parts of other types or without data, and the
\* top-level body, contribute nothing.  Without parts, the top-level body
\* data, when there and decodable, are text_body, and html_body is absent.
\* The payload with a text/plain part "aGk=" and a text/html part "PHA-"
\* gives text_body "hi" and html_body "<p>".
C9_BodyExtraction ==
    (Normalized /\ nres.ok) =>
        LET data == npayload.data
            top == data.payload.body
        IN  /\ IF HasParts(data)
               THEN /\ nres.msg.text_body \in
                           OneOfOrNone(DecodedOfType(data.payload.parts.items, TextPlain))
                    /\ nres.msg.html_body \in
                           OneOfOrNone(DecodedOfType(data.payload.parts.items, TextHtml))
               ELSE /\ nres.msg.html_body = None
                    /\ nres.msg.text_body =
                           IF /\ data.payload.kind = "object"
                              /\ top.kind = "object"
                              /\ TruthyText(top.data)
                              /\ DecodeBody(top.data).err = "none"
                           THEN Some(DecodeBody(top.data).text)
                           ELSE None
            /\ data = GoodData =>
                   nres.msg.text_body = Some(TextHi) /\ nres.msg.html_body = Some(TextP)
            /\ (~ HasParts(data) /\ data.payload.kind = "object" /\ top = BodyOf(B64Hi)) =>
                   nres.msg.text_body = Some(TextHi)

\* C9 witness: a message returned for a payload whose only part is a
\* text/html part and whose top-level body holds data: html_body is the
\* part's text and the top-level data are ignored.
C9_Witness ==
    /\ Normalized /\ nres.ok
    /\ npayload.data.payload.parts =
           ListOf(<<[mimeType |-> TextHtml, body |-> BodyOf(B64P)]>>)
    /\ npayload.data.payload.body = BodyOf(B64Hi)
    /\ nres.msg.html_body = Some(TextP)
    /\ nres.msg.text_body = None

\* the spellings of the three header names among the headers of the model
FromNames == {<<"F", "r", "o", "m">>, <<"f", "r", "o", "m">>, <<"F", "R", "O", "M">>}
ToNames == {<<"T", "o">>}
SubjectNames == {<<"S", "U", "B", "J", "E", "C", "T">>, <<"S", "u", "b", "j", "e", "c", "t">>}

\* the headers list the loop runs over
HeaderList(data) ==
    IF data.payload.kind = "object" /\ data.payload.headers.kind = "list"
    THEN data.payload.headers.items
    ELSE <<>>

Indices(headers, names) == {i \in 1..Len(headers) : headers[i].name \in names}

Largest(S) == CHOOSE x \in S : \A y \in S : y <= x
Smallest(S) == CHOOSE x \in S : \A y \in S : x <= y

\* the value of the last, and of the first, header with one of the names;
\* "" when there is none or when it has no value
LastValue(headers, names) ==
    IF Indices(headers, names) = {} THEN <<>>
    ELSE Get(headers[Largest(Indices(headers, names))].value, <<>>)

FirstValue(headers, names) ==
    IF Indices(headers, names) = {} THEN <<>>
    ELSE Get(headers[Smallest(Indices(headers, names))].value, <<>>)

\* C10, as stated: the names from, to and subject are matched in any case,
\* a field is "" when its header is missing, and of several headers of one
\* name the value of the first is kept.
C10_FirstOccurrenceKept ==
    (Normalized /\ nres.ok) =>
        /\ nres.msg.sender = FirstValue(HeaderList(npayload.data), FromNames)
        /\ nres.msg.to = FirstValue(HeaderList(npayload.data), ToNames)
        /\ nres.msg.subject = FirstValue(HeaderList(npayload.data), SubjectNames)

\* C10, amended: the names from, to and subject are matched in any case,
\* a field is "" when its header is missing, and of several headers of one
\* name the value of the last is kept.
C10_LastOccurrenceKept ==
    (Normalized /\ nres.ok) =>
        /\ nres.msg.sender = LastValue(HeaderList(npayload.data), FromNames)
        /\ nres.msg.to = LastValue(HeaderList(npayload.data), ToNames)
        /\ nres.msg.subject = LastValue(HeaderList(npayload.data), SubjectNames)

\* C10 witness: a message returned for headers that name From twice, in
\* two spellings and with two values: sender is the second value.
C10_Witness ==
    /\ Normalized /\ nres.ok
    /\ HeaderList(npayload.data) =
           << [name |-> <<"F", "r", "o", "m">>, value |-> <<"a">>], [name |-> <<"f", "r", "o", "m">>, value |-> <<"b">>] >>
    /\ nres.msg.sender = <<"b">>
    /\ nres.msg.to = <<>>

---------------------------------------------------------------------------
(* The verifier on its own: the verification block applied to a request    *)

\* values of COMPOSIO_WEBHOOK_SECRET: unset ("") or one of two secrets
Secrets == {"", "whsec_a", "whsec_b"}

WebhookIds == {Absent, <<"a">>, <<"a", ".", "b">>}
Timestamps == {Absent, <<"1">>, <<"b", ".", "1">>}
RawBodies == {<<"{", "}">>, <<"{", "}", " ">>, <<"[", "]">>, <<BadByte>>}

\* the signatures a holder of a secret can make: one per secret and per
\* (webhook-id, timestamp, body) of the model
Signatures ==
    {ExpectedSignature(k, SignedContent(Get(i, <<>>), Get(t, <<>>), b)) :
        k \in Secrets \ {""}, i \in WebhookIds, t \in Timestamps,
        b \in {x \in RawBodies : Utf8Valid(x)}}

SignatureHeaders ==
    {Absent, <<>>, <<"v", "1">>, <<"v", "1", ",">>, <<"v", "1", ",", NonAscii>>}
    \cup {<<"v", "1", ",">> \o m : m \in Signatures}
    \cup {<<",">> \o m : m \in Signatures}
    \cup {<<"v", "1", ",">> \o m \o <<",", "x">> : m \in Signatures}
    \cup Signatures

VerifyInputs ==
    {[secret |-> k, headers |-> [signature |-> sg, timestamp |-> t, id |-> i], body |-> b] :
        k \in Secrets, sg \in SignatureHeaders, t \in Timestamps, i \in WebhookIds,
        b \in RawBodies}

InitVerify ==
    /\ triggers = NoTriggerCalls
    /\ vreq \in VerifyInputs
    /\ vres = NotVerified
    /\ COMPOSIO_WEBHOOK_SECRET = ""
    /\ prompt = None
    /\ prompts = <<>>
    /\ slots = [r \in Slots |-> IdleSlot]
    /\ npayload = NoPayload
    /\ nres = NotNormalized
    /\ dreq = NoLookup
    /\ dres = NotResolved
    /\ procs = NoProcs

Verify ==
    /\ vres = NotVerified
    /\ vres' = VerifyWebhookSignature(vreq.secret, vreq.headers, vreq.body)
    /\ UNCHANGED <<COMPOSIO_WEBHOOK_SECRET, prompt, prompts, slots, vreq, npayload, nres, dreq, dres, procs, triggers>>

NextVerify == Verify

SpecVerify == InitVerify /\ [][NextVerify]_vars

---------------------------------------------------------------------------
(* Properties of the verifier (checked under SpecVerify) *)

Verified == vres # NotVerified

SignatureHeaderOf(req) == Get(req.headers.signature, <<>>)

\* base64(HMAC-SHA256(secret, webhook_id + "." + timestamp + "." + body))
\* for the request, the header values read with "" for a missing header
SignatureFor(req) ==
    ExpectedSignature(req.secret,
                      Get(req.headers.id, <<>>) \o <<".">>
                          \o Get(req.headers.timestamp, <<>>) \o <<".">> \o req.body)

\* everything after the first comma of a text that has a comma
AfterFirstComma(s) ==
    SubSeq(s, 1 + (CHOOSE i \in 1..Len(s) : s[i] = "," /\ \A j \in 1..(i - 1) : s[j] # ","),
           Len(s))

\* the texts that differ from s in one character
ByteValues == {"a", "b", ".", "1", "2", "{", "}", "[", "]", " ", BadByte}
OneByteChanged(s) ==
    UNION {{[s EXCEPT ![i] = c] : c \in ByteValues \ {s[i]}} : i \in 1..Len(s)}

\* the requests that differ from req in one byte of the body, of the
\* timestamp or of the webhook-id, the signature header unchanged
Tampered(req) ==
    {[req EXCEPT !.body = b] : b \in OneByteChanged(req.body)}
    \cup {[req EXCEPT !.headers.timestamp = t] :
            t \in OneByteChanged(Get(req.headers.timestamp, <<>>))}
    \cup {[req EXCEPT !.headers.id = i] : i \in OneByteChanged(Get(req.headers.id, <<>>))}

Accepts(req) == VerifyWebhookSignature(req.secret, req.headers, req.body).status = 200

\* C3: with a secret and a signature header "<version>,<sig>", the request
\* is accepted if and only if <sig> is base64(HMAC-SHA256(secret,
\* webhook_id + "." + timestamp + "." + body)); and an accepted request is
\* rejected once one byte of its body, timestamp or webhook-id is changed.
C3_AcceptsIffSignatureMatches ==
    (/\ Verified
     /\ vreq.secret # ""
     /\ Contains(SignatureHeaderOf(vreq), ",")
     /\ Utf8Valid(vreq.body)) =>
        /\ vres.status = 200 <=> AfterFirstComma(SignatureHeaderOf(vreq)) = SignatureFor(vreq)
        /\ vres.status = 200 => \A other \in Tampered(vreq) : ~ Accepts(other)

\* C3 witness: a request accepted on its signature, with a body, a
\* timestamp and a webhook-id that can each be changed in one byte.
C3_Witness ==
    /\ Verified
    /\ vres = Passed
    /\ vreq.secret = "whsec_a"
    /\ vreq.body = <<"{", "}">>
    /\ vreq.headers.id = <<"a", ".", "b">>
    /\ vreq.headers.timestamp = <<"1">>
    /\ Cardinality(Tampered(vreq)) >= 3

\* C4: verification is skipped, and the request passes, exactly when no
\* secret is configured or the signature header is missing or empty: with
\* no secret every request passes whatever its signature header holds, and
\* with a secret a request without the header passes; otherwise a request
\* passes only on a matching signature.
C4_SkippedIffNoSecretOrNoHeader ==
    Verified =>
        /\ vres = Skipped <=> (vreq.secret = "" \/ SignatureHeaderOf(vreq) = <<>>)
        /\ vres = Skipped => vres.status = 200
        /\ (vres.status = 200 /\ vres # Skipped) =>
               /\ Contains(SignatureHeaderOf(vreq), ",")
               /\ AfterFirstComma(SignatureHeaderOf(vreq)) = SignatureFor(vreq)

\* C4 witness: with no secret, a request whose signature header has no
\* comma, and a body that is no UTF-8, passes unverified.
C4_Witness ==
    /\ Verified
    /\ vreq.secret = ""
    /\ vreq.headers.signature = <<"v", "1">>
    /\ vreq.body = <<BadByte>>
    /\ vres = Skipped

VerificationActive(req) == req.secret # "" /\ SignatureHeaderOf(req) # <<>>

Versions == {<<>>, <<"v", "1">>, <<"v", "2">>}

\* C5: when verification is active, a signature header without a comma is
\* rejected with 401 "Invalid signature format" before the body is decoded
\* or an HMAC computed; a header with commas is split once, at its first
\* comma: what precedes is ignored (any version gives the same outcome) and
\* all that follows, further commas included, is compared with the
\* expected signature.
C5_SplitOnceAtFirstComma ==
    (Verified /\ VerificationActive(vreq)) =>
        LET h == SignatureHeaderOf(vreq)
        IN  /\ ~ Contains(h, ",") => vres = Raised(401, "Invalid signature format")
            /\ Contains(h, ",") =>
                   /\ vres # Raised(401, "Invalid signature format")
                   /\ (Utf8Valid(vreq.body) /\ IsAscii(h)) =>
                          vres = IF AfterFirstComma(h) = SignatureFor(vreq)
                                 THEN Passed
                                 ELSE Raised(401, "Invalid webhook signature")
                   /\ \A v \in Versions :
                          VerifyWebhookSignature(
                              vreq.secret,
                              [vreq.headers EXCEPT !.signature = v \o <<",">> \o AfterFirstComma(h)],
                              vreq.body) = vres

\* C5 witness: a header "v1,<sig>,x" whose <sig> is the expected signature
\* of the request is rejected: the signature compared is "<sig>,x".
C5_Witness ==
    /\ Verified
    /\ vreq.secret = "whsec_a"
    /\ vreq.headers.signature = <<"v", "1", ",">> \o SignatureFor(vreq) \o <<",", "x">>
    /\ vres = Raised(401, "Invalid webhook signature")

---------------------------------------------------------------------------
(* Properties of the webhook endpoint, checked under Spec *)

Responded(r) == slots[r].pc = "responded"

\* what verification gives for the request of a slot
VerdictOf(r) ==
    VerifyWebhookSignature(COMPOSIO_WEBHOOK_SECRET, slots[r].request.headers,
                           slots[r].request.body)

\* the request of a slot, with the configured secret
SignedRequestOf(r) ==
    [secret |-> COMPOSIO_WEBHOOK_SECRET, headers |-> slots[r].request.headers,
     body |-> slots[r].request.body]

\* nothing beyond verification was done for the request of a slot
NoFurtherProcessing(r) ==
    /\ slots[r].outcome.norm_err = "not reached"
    /\ slots[r].outcome.message = NoMessage
    /\ ~ slots[r].outcome.looked_up
    /\ ~ slots[r].outcome.queued
    /\ slots[r].task = "none"

\* C1: every request that passes or skips signature verification is
\* answered 200 with the value of its webhook-id header, whatever its body
\* is: no failure of parsing, normalisation or dispatch gives a 5xx.
C1_VerifiedRequestAnswered200 ==
    \A r \in Slots :
        (Responded(r) /\ VerdictOf(r).status = 200) =>
            /\ slots[r].outcome.status = 200
            /\ slots[r].outcome.webhook_id = Get(slots[r].request.headers.id, <<>>)

\* C2: a request whose signature verification fails, by a signature header
\* without a comma or by a signature that is not the expected HMAC, with a
\* secret configured, is answered 401 and is not processed further: its
\* body is not normalised, no prompt is looked up, no task is added.
C2_FailedVerificationAnswered401 ==
    \A r \in Slots :
        LET h == SignatureHeaderOf(SignedRequestOf(r))
        IN  (/\ Responded(r)
             /\ VerificationActive(SignedRequestOf(r))
             /\ \/ ~ Contains(h, ",")
                \/ AfterFirstComma(h) # SignatureFor(SignedRequestOf(r))) =>
                /\ slots[r].outcome.status = 401
                /\ NoFurtherProcessing(r)

\* the parsed body of a slot is a Gmail event without a 'data' key
GmailEventWithoutData(r) ==
    LET webhook_data == RequestJson(slots[r].request.body)
    IN  /\ webhook_data.kind = "object"
        /\ IsGmailEvent(webhook_data) = "true"
        /\ webhook_data.data.kind = "absent"

\* C7: a payload without a 'data' key fails normalisation with the
\* missing-data error, before anything of a message is extracted; the
\* handler catches the error, adds no task for the request and answers 200.
C7_MissingDataCaught ==
    \A r \in Slots :
        (Responded(r) /\ VerdictOf(r).status = 200 /\ GmailEventWithoutData(r)) =>
            /\ slots[r].outcome.norm_err = "MissingData"
            /\ slots[r].outcome.message = NoMessage
            /\ ~ slots[r].outcome.looked_up
            /\ ~ slots[r].outcome.queued
            /\ slots[r].task = "none"
            /\ "Normalized" \notin {slots[r].stages[i] : i \in 1..Len(slots[r].stages)}
            /\ slots[r].outcome.status = 200
            /\ slots[r].outcome.webhook_id = Get(slots[r].request.headers.id, <<>>)

\* C7 witness: the handler answered a Gmail event without 'data' after the
\* normaliser raised the missing-data error, while another request's
\* message was dispatched.
C7_Witness ==
    \E r, q \in Slots :
        /\ Responded(r)
        /\ slots[r].request.body = <<"{type:gmail_new_message}">>
        /\ slots[r].outcome.norm_err = "MissingData"
        /\ slots[r].outcome.status = 200
        /\ slots[q].outcome.queued

---------------------------------------------------------------------------
(* The prompt lookup on its own: get_user_prompt of email_processor.py *)

\* supabase.table("prompts").select("*").eq("user_id", user_id).execute():
\* the rows of the user, or an exception (network, credentials, ...)
ExecuteSelect(table, user_id, query_fails) ==
    IF query_fails
    THEN [raised |-> TRUE, data |-> <<>>]
    ELSE [raised |-> FALSE, data |-> SelectPrompts(table, user_id)]

\* get_user_prompt without its try/except: the exception of the query
\* reaches the caller
GetUserPromptUncaught(table, user_id, default_prompt, query_fails) ==
    LET prompt_response == ExecuteSelect(table, user_id, query_fails)
    IN  IF prompt_response.raised
        THEN [raised |-> TRUE, value |-> <<>>]
        ELSE IF prompt_response.data # <<>>
        THEN [raised |-> FALSE, value |-> prompt_response.data[1].prompt]
        ELSE [raised |-> FALSE, value |-> default_prompt]

\* get_user_prompt(user_id, default_prompt) (lines 106-132): the prompt of
\* the first row of the user, the default when there is no row, and the
\* default when the query raises (except Exception, lines 130-132)
GetUserPrompt(table, user_id, default_prompt, query_fails) ==
    LET prompt_response == ExecuteSelect(table, user_id, query_fails)
    IN  IF prompt_response.raised
        THEN [raised |-> FALSE, value |-> default_prompt]
        ELSE IF prompt_response.data # <<>>
        THEN [raised |-> FALSE, value |-> prompt_response.data[1].prompt]
        ELSE [raised |-> FALSE, value |-> default_prompt]

\* The tables and the arguments of the lookups
OtherPromptOfUser1 == <<"second prompt of u1">>

LookupStores ==
    Stores
    \cup {<<Row(<<"u", "2">>, PromptOfUser2), Row(<<"u", "1">>, PromptOfUser1),
            Row(<<"u", "1">>, OtherPromptOfUser1)>>,
          <<Row(<<"u", "1">>, <<>>)>>}

LookupUsers == {<<"u", "1">>, <<"u", "2">>, <<"u", "3">>, <<>>}

LookupDefaults == {DefaultPrompt, <<"D", "E", "F", "A", "U", "L", "T">>}

InitLookup ==
    /\ triggers = NoTriggerCalls
    /\ prompts \in LookupStores
    /\ dreq \in [table : {prompts}, user_id : LookupUsers,
                 default_prompt : LookupDefaults, query_fails : BOOLEAN]
    /\ dres = NotResolved
    /\ COMPOSIO_WEBHOOK_SECRET = ""
    /\ prompt = None
    /\ slots = [r \in Slots |-> IdleSlot]
    /\ vreq = NoRequest
    /\ vres = NotVerified
    /\ npayload = NoPayload
    /\ nres = NotNormalized
    /\ procs = NoProcs

Lookup ==
    /\ dres = NotResolved
    /\ dres' = GetUserPrompt(prompts, dreq.user_id, dreq.default_prompt, dreq.query_fails)
    /\ UNCHANGED <<COMPOSIO_WEBHOOK_SECRET, prompt, prompts, slots, vreq, vres, npayload, nres,
                   dreq, procs, triggers>>

NextLookup == Lookup

SpecLookup == InitLookup /\ [][NextLookup]_vars

---------------------------------------------------------------------------
(* Properties of the prompt lookup, checked under SpecLookup *)

Resolved == dres # NotResolved

\* the rows stored for the user of the lookup
RowsOfUser == SelectSeq(dreq.table, LAMBDA row : row.user_id = dreq.user_id)

\* C11: the lookup returns the prompt stored for a user that has one, and
\* the default it was given when no row is stored for the user or when the
\* query fails; it never raises and leaves the table as it was.  The
\* lookup written inline in listen_webhooks gives the same prompt.
C11_StoredPromptOrDefault ==
    Resolved =>
        /\ ~ dres.raised
        /\ (~ dreq.query_fails /\ RowsOfUser # <<>>) => dres.value = RowsOfUser[1].prompt
        /\ (dreq.query_fails \/ RowsOfUser = <<>>) => dres.value = dreq.default_prompt
        /\ prompts = dreq.table
        /\ dreq.user_id # <<>> =>
               ResolvePrompt(Some(dreq.default_prompt), prompts, dreq.user_id,
                             dreq.query_fails) = dres.value

\* C11 witness: a lookup whose query failed, for a user with a stored
\* prompt, returned the default.
C11_Witness ==
    /\ Resolved
    /\ dreq.query_fails
    /\ RowsOfUser # <<>>
    /\ dres = [raised |-> FALSE, value |-> <<"D", "E", "F", "A", "U", "L", "T">>]

---------------------------------------------------------------------------
(* Dispatch, checked under Spec *)

\* the parsed body of the request of a slot
WebhookDataOf(r) == RequestJson(slots[r].request.body)

\* the types of the model that name a Gmail new-message event
GmailTypes == {TypeGmailNewMessage, TypeGmailUpper}

\* the prompt the handler falls back on when the user has no row
FallbackPrompt == IF prompt.some /\ prompt.val # <<>> THEN prompt.val ELSE DefaultPrompt

\* the rows of the prompts table for a user
RowsFor(user_id) == SelectSeq(prompts, LAMBDA row : row.user_id = user_id)

\* the request of a slot passed or skipped verification and its body is a
\* JSON object with a type that is a text, or with no type
Accepted(r) ==
    /\ Responded(r)
    /\ VerdictOf(r).status = 200
    /\ WebhookDataOf(r).kind = "object"
    /\ WebhookDataOf(r).type \notin {JNull, JNumber}

\* C12: for an accepted request with a Gmail new-message type whose
\* payload normalises, one task is added, for the message whose id is the
\* id of the payload, with the prompt resolved for the user of the message
\* (the prompt of the user's row, or the fallback; the fallback when the
\* user has no row); for an accepted request with another type, or whose
\* payload does not normalise, no task is added.
C12_DispatchedExactlyWhenNormalized ==
    \A r \in Slots :
        Accepted(r) =>
            LET webhook_data == WebhookDataOf(r)
                norm == FromComposioPayload(webhook_data)
                out == slots[r].outcome
            IN  IF webhook_data.type \in GmailTypes /\ norm.ok
                THEN /\ out.queued
                     /\ slots[r].task # "none"
                     /\ out.message = norm.msg
                     /\ out.message.id = Get(webhook_data.data.id, <<>>)
                     /\ out.user_prompt \in
                            {FallbackPrompt} \cup
                            {RowsFor(out.message.user_id)[i].prompt :
                                i \in 1..Len(RowsFor(out.message.user_id))}
                     /\ RowsFor(out.message.user_id) = <<>> =>
                            out.user_prompt = FallbackPrompt
                ELSE /\ ~ out.queued
                     /\ slots[r].task = "none"
                     /\ out.user_prompt = <<>>

\* C12 witness: a request of type GMAIL_NEW_GMAIL_MESSAGE for user u2 was
\* dispatched with the prompt stored for u2, and a request of another type
\* was answered without a task.
C12_Witness ==
    \E r, q \in Slots :
        /\ Accepted(r)
        /\ WebhookDataOf(r).type = TypeGmailUpper
        /\ slots[r].outcome.queued
        /\ slots[r].outcome.message.user_id = <<"u", "2">>
        /\ slots[r].outcome.user_prompt = PromptOfUser2
        /\ Accepted(q)
        /\ WebhookDataOf(q).type = TypeSlack
        /\ slots[q].task = "none"

\* the task of a slot has started
Started(r) == slots[r].task \in {"processing", "succeeded", "failed"}

\* C13: the handler verifies, normalises and resolves the prompt before it
\* responds, and the task of a request starts only after its response: a
\* response is produced with its task not started, a started task belongs
\* to a request already answered, and no step of a task changes the
\* response or the outcome of the handler.
C13_TaskAfterResponse ==
    [][\A r \in Slots :
          /\ (slots[r].pc = "idle" /\ slots'[r].pc = "responded") =>
                 /\ slots'[r].task \in {"none", "queued"}
                 /\ slots'[r].outcome.queued =>
                        /\ slots'[r].outcome.norm_err = "none"
                        /\ slots'[r].outcome.user_prompt # <<>>
          /\ Started(r)' => slots'[r].pc = "responded"
          /\ slots[r].pc = "responded" =>
                 /\ slots'[r].pc = "responded"
                 /\ slots'[r].outcome = slots[r].outcome
                 /\ slots'[r].request = slots[r].request]_vars

\* C13 witness: a request answered 200 whose task then failed in the agent
\* run.
C13_Witness ==
    \E r \in Slots :
        /\ slots[r].pc = "responded"
        /\ slots[r].outcome.status = 200
        /\ slots[r].tools = "tools"
        /\ slots[r].task = "failed"

---------------------------------------------------------------------------
(* The message processor on its own: process_gmail_message of             *)
(* email_processor.py, run as concurrent tasks of one event loop.  A task  *)
(* runs without interruption up to its only await, Runner.run (line 85).   *)

\* the most tasks that run together
NumTasks == 2

Tasks == 1..NumTasks

\* the user of the message of task p: the tasks are for different users
UserOf(p) == <<"u", ToString(p)>>

ConnectionOf(p) == <<"c", ToString(p)>>

\* what Agent(...) (lines 68-72) does: it returns the agent or it raises
AgentResults == {"created", "raises"}

\* a task that has returned
Returned(value, tools, agent) ==
    [pc |-> "returned", value |-> value, escaped |-> FALSE, tools |-> tools, agent |-> agent]

\* a task left by an exception that nothing caught
Escaped(tools, agent) ==
    [pc |-> "returned", value |-> "none", escaped |-> TRUE, tools |-> tools, agent |-> agent]

\* a task suspended in await Runner.run
Awaiting == [pc |-> "running", value |-> "none", escaped |-> FALSE, tools |-> "tools",
             agent |-> "created"]

\* process_gmail_message without its try/except: an exception raised by
\* composio.tools.get or by Agent(...) leaves the function
ProcessUntilAwaitUncaught(message, tools, agent) ==
    IF message.user_id = <<>> THEN Returned("False", "none", "none")
    ELSE IF message.connection_id = <<>> THEN Returned("False", "none", "none")
    ELSE IF tools = "raises" THEN Escaped(tools, "none")
    ELSE IF tools = "empty" THEN Returned("False", tools, "none")
    ELSE IF agent = "raises" THEN Escaped(tools, agent)
    ELSE Awaiting

\* process_gmail_message up to its await (lines 25-85): the tests of
\* user_id and connection_id (29-35), composio.tools.get (50-60), the test
\* of the tools (62-64), Agent(...) (68-72); an exception of any of them is
\* caught by the except clause (92-103), which returns False
ProcessUntilAwait(message, tools, agent) ==
    IF message.user_id = <<>> THEN Returned("False", "none", "none")
    ELSE IF message.connection_id = <<>> THEN Returned("False", "none", "none")
    ELSE IF tools = "raises" THEN Returned("False", tools, "none")
    ELSE IF tools = "empty" THEN Returned("False", tools, "none")
    ELSE IF agent = "raises" THEN Returned("False", tools, agent)
    ELSE Awaiting

\* the rest of process_gmail_message (lines 85-103): Runner.run returns and
\* the function returns True, or it raises and the except clause returns False
ProcessAfterRun(result) == IF result = "returns" THEN "True" ELSE "False"

\* a task added for a message, not started
Dispatched(message) ==
    [message |-> message, pc |-> "dispatched", value |-> "none", escaped |-> FALSE,
     tools |-> "none", agent |-> "none", run |-> "none"]

TaskMessages(p) ==
    [user_id : {UserOf(p), <<>>}, connection_id : {ConnectionOf(p), <<>>}]

InitProc ==
    /\ triggers = NoTriggerCalls
    /\ procs \in {f \in [Tasks -> UNION {{Dispatched(m) : m \in TaskMessages(p)} : p \in Tasks}] :
                    \A p \in Tasks : f[p].message \in TaskMessages(p)}
    /\ COMPOSIO_WEBHOOK_SECRET = ""
    /\ prompt = None
    /\ prompts = <<>>
    /\ slots = [r \in Slots |-> IdleSlot]
    /\ vreq = NoRequest
    /\ vres = NotVerified
    /\ npayload = NoPayload
    /\ nres = NotNormalized
    /\ dreq = NoLookup
    /\ dres = NotResolved

\* The event loop starts task p, which runs to its await or to its return.
Begin(p) ==
    /\ procs[p].pc = "dispatched"
    /\ \E tools \in ToolsResults, agent \in AgentResults :
          LET reached == ProcessUntilAwait(procs[p].message, tools, agent)
          IN  procs' = [procs EXCEPT ![p] =
                  [message |-> procs[p].message, pc |-> reached.pc, value |-> reached.value,
                   escaped |-> reached.escaped, tools |-> reached.tools,
                   agent |-> reached.agent, run |-> "none"]]
    /\ UNCHANGED <<COMPOSIO_WEBHOOK_SECRET, prompt, prompts, slots, vreq, vres, npayload, nres,
                   dreq, dres, triggers>>

\* an agent run whose failure ends every task that is waiting for its agent
EndFailingAll(p) ==
    /\ procs[p].pc = "running"
    /\ \E result \in RunResults :
          procs' = [q \in Tasks |->
                      IF q = p \/ (result = "raises" /\ procs[q].pc = "running")
                      THEN [procs[q] EXCEPT !.pc = "returned",
                                            !.value = ProcessAfterRun(result),
                                            !.run = result]
                      ELSE procs[q]]
    /\ UNCHANGED <<COMPOSIO_WEBHOOK_SECRET, prompt, prompts, slots, vreq, vres, npayload, nres,
                   dreq, dres, triggers>>

\* The agent run awaited by task p ends, and the task runs to its return.
End(p) ==
    /\ procs[p].pc = "running"
    /\ \E result \in RunResults :
          procs' = [procs EXCEPT ![p].pc = "returned",
                                 ![p].value = ProcessAfterRun(result),
                                 ![p].run = result]
    /\ UNCHANGED <<COMPOSIO_WEBHOOK_SECRET, prompt, prompts, slots, vreq, vres, npayload, nres,
                   dreq, dres, triggers>>

NextProc == \E p \in Tasks : Begin(p) \/ End(p)

SpecProc == InitProc /\ [][NextProc]_vars

---------------------------------------------------------------------------
(* The processor, checked under Spec (the task added by listen_webhooks)   *)
(* and under SpecProc (process_gmail_message of email_processor.py)        *)

\* the agent was run for the task of a slot
AgentInvoked(r) == slots[r].tools \in {"empty", "tools"}

\* C14: the agent is run for a message only if the user_id and the
\* connection_id of the message are not empty and the tools acquired for
\* the user are not empty.
C14_AgentOnlyWithUserConnectionAndTools ==
    \A r \in Slots :
        AgentInvoked(r) =>
            /\ slots[r].outcome.message.user_id # <<>>
            /\ slots[r].outcome.message.connection_id # <<>>
            /\ slots[r].tools = "tools"

\* C15: no exception leaves process_gmail_message: a failure of
\* composio.tools.get, of Agent(...) or of Runner.run is caught and the
\* function returns False; it returns True only when the agent run
\* returned without raising.
C15_ProcessorCatchesEveryFailure ==
    \A p \in Tasks :
        /\ ~ procs[p].escaped
        /\ procs[p].pc = "returned" => procs[p].value \in {"True", "False"}
        /\ procs[p].pc # "returned" => procs[p].value = "none"
        /\ procs[p].value = "True" =>
               /\ procs[p].tools = "tools"
               /\ procs[p].agent = "created"
               /\ procs[p].run = "returns"
        /\ (/\ procs[p].pc = "returned"
            /\ \/ procs[p].tools = "raises"
               \/ procs[p].agent = "raises"
               \/ procs[p].run = "raises") => procs[p].value = "False"

\* C15 witness: one task returned False after composio.tools.get raised,
\* another returned False after the agent run raised.
C15_Witness ==
    \E p, q \in Tasks :
        /\ procs[p].pc = "returned"
        /\ procs[p].tools = "raises"
        /\ procs[p].value = "False"
        /\ procs[q].pc = "returned"
        /\ procs[q].run = "raises"
        /\ procs[q].value = "False"

\* what task p returns, from its own message and from what its own calls did
OwnOutcome(p) ==
    IF /\ procs[p].message.user_id # <<>>
       /\ procs[p].message.connection_id # <<>>
       /\ procs[p].tools = "tools"
       /\ procs[p].agent = "created"
       /\ procs[p].run = "returns"
    THEN "True"
    ELSE "False"

\* C16: tasks for different users run independently under every
\* interleaving: a task that has not returned can always take its next
\* step, what a task returns is determined by its own message and its own
\* calls, a step of one task changes nothing of another, and a returned
\* task keeps what it returned.
C16_TasksIndependent ==
    /\ [](\A p \in Tasks :
             /\ procs[p].pc # "returned" => ENABLED (Begin(p) \/ End(p))
             /\ procs[p].pc = "returned" => procs[p].value = OwnOutcome(p))
    /\ [][\A p \in Tasks :
             /\ procs'[p] # procs[p] => \A q \in Tasks \ {p} : procs'[q] = procs[q]
             /\ procs[p].pc = "returned" => procs'[p] = procs[p]]_vars

\* C16 witness: of two tasks for two users, one returned False on an empty
\* tool list and the other returned True.
C16_Witness ==
    \E p, q \in Tasks :
        /\ procs[p].message.user_id # procs[q].message.user_id
        /\ procs[p].pc = "returned"
        /\ procs[p].tools = "empty"
        /\ procs[p].value = "False"
        /\ procs[q].pc = "returned"
        /\ procs[q].value = "True"

---------------------------------------------------------------------------
(* The states of a message, checked under Spec *)

StateChain == <<"Received", "Verified", "Normalized", "Dispatched", "Processing">>

IsPrefix(s, t) == Len(s) <= Len(t) /\ SubSeq(t, 1, Len(s)) = s

\* the state sequences of the machine: the chain up to one of its states,
\* or the whole chain followed by Succeeded or by Failed
FollowsStateMachine(stages) ==
    \/ IsPrefix(stages, StateChain)
    \/ stages = Append(StateChain, "Succeeded")
    \/ stages = Append(StateChain, "Failed")

LastStage(stages) == IF stages = <<>> THEN "none" ELSE stages[Len(stages)]

\* the state recorded last for a slot is the state its task is in
StageOfTask(r) ==
    CASE slots[r].task = "queued" -> "Dispatched"
      [] slots[r].task = "processing" -> "Processing"
      [] slots[r].task = "succeeded" -> "Succeeded"
      [] slots[r].task = "failed" -> "Failed"
      [] OTHER -> LastStage(slots[r].stages)

\* C17: the states a message goes through are, in this order and with
\* none skipped or entered twice, Received, Verified, Normalized,
\* Dispatched, Processing and then Succeeded or Failed (a message that is
\* rejected or dropped stops at the state it reached); every step keeps the
\* states already recorded, and nothing changes after Succeeded or Failed.
C17_StateMachineFollowed ==
    [][\A r \in Slots :
          /\ FollowsStateMachine(slots'[r].stages)
          /\ IsPrefix(slots[r].stages, slots'[r].stages)
          /\ LastStage(slots'[r].stages) = StageOfTask(r)'
          /\ LastStage(slots[r].stages) \in {"Succeeded", "Failed"} =>
                 slots'[r] = slots[r]]_vars

\* C17 witness: one message went through every state to Succeeded, and
\* another to Failed.
C17_Witness ==
    \E r, q \in Slots :
        /\ slots[r].stages = Append(StateChain, "Succeeded")
        /\ slots[q].stages = Append(StateChain, "Failed")

---------------------------------------------------------------------------
(* Termination of the processor.  The event loop runs every task that is   *)
(* ready, which is weak fairness of Begin; the end of an agent run is up   *)
(* to the agent and the services it calls, and the code puts no timeout    *)
(* on it, so nothing is assumed of End.                                    *)

SpecProcFair == SpecProc /\ \A p \in Tasks : WF_vars(Begin(p))

\* C18: every dispatched message eventually reaches a terminal outcome,
\* with a fair scheduler and nothing assumed of how long the agent run
\* takes.
C18_EveryTaskReturns ==
    \A p \in Tasks : <>(procs[p].pc = "returned")

---------------------------------------------------------------------------
(* The signing string, checked under SpecVerify *)

\* the (webhook-id, timestamp, body) of a request, "" for a missing header
TripleOf(req) ==
    <<Get(req.headers.id, <<>>), Get(req.headers.timestamp, <<>>), req.body>>

\* the three values joined with dots
DotJoined(triple) == triple[1] \o <<".">> \o triple[2] \o <<".">> \o triple[3]

\* the request with another webhook-id, timestamp and body, its signature
\* header unchanged
WithTriple(req, i, t, b) ==
    [req EXCEPT !.headers.id = i, !.headers.timestamp = t, !.body = b]

NoDot(s) == ~ Contains(s, ".")

\* C19: a signature accepted for one (webhook-id, timestamp, body) is
\* accepted for no other triple under the same secret.
C19_SignatureAcceptedForOneTriple ==
    (Verified /\ vres = Passed) =>
        \A i \in WebhookIds, t \in Timestamps, b \in RawBodies :
            TripleOf(WithTriple(vreq, i, t, b)) # TripleOf(vreq) =>
                ~ Accepts(WithTriple(vreq, i, t, b))

\* C19, amended: a signature accepted for one triple is accepted for
\* another triple only if the two have the same dot-joined signing string;
\* triples whose webhook-id and timestamp hold no dot have different
\* signing strings, so among them a signature is accepted for one triple
\* only.
C19_SignatureAcceptedForOneSigningString ==
    (Verified /\ vres = Passed) =>
        \A i \in WebhookIds, t \in Timestamps, b \in RawBodies :
            LET other == WithTriple(vreq, i, t, b)
            IN  /\ DotJoined(TripleOf(other)) # DotJoined(TripleOf(vreq)) => ~ Accepts(other)
                /\ (/\ TripleOf(other) # TripleOf(vreq)
                    /\ NoDot(TripleOf(other)[1]) /\ NoDot(TripleOf(other)[2])
                    /\ NoDot(TripleOf(vreq)[1]) /\ NoDot(TripleOf(vreq)[2])) =>
                       ~ Accepts(other)

\* C19 witness: a request with webhook-id "a.b" and timestamp "1" is
\* accepted, and so is, under the same signature, the request with
\* webhook-id "a" and timestamp "b.1".
C19_Witness ==
    /\ Verified
    /\ vres = Passed
    /\ vreq.headers.id = <<"a", ".", "b">>
    /\ vreq.headers.timestamp = <<"1">>
    /\ Accepts(WithTriple(vreq, <<"a">>, <<"b", ".", "1">>, vreq.body))

---------------------------------------------------------------------------
(* The prompt a message is processed with, checked under Spec *)

\* the prompts stored for a user
PromptsStoredFor(user_id) ==
    {RowsFor(user_id)[i].prompt : i \in 1..Len(RowsFor(user_id))}

\* C20: the prompt handed to the processor for a message of user U is the
\* prompt stored for U or the default that depends on no user; it is never
\* the prompt stored for another user.
C20_PromptOfUserOrDefault ==
    \A r \in Slots :
        slots[r].outcome.queued =>
            slots[r].outcome.user_prompt \in
                PromptsStoredFor(slots[r].outcome.message.user_id) \cup {DefaultPrompt}

---------------------------------------------------------------------------
(* create_trigger of email_processor.py (lines 135-175).  The function is  *)
(* synchronous: a call blocks in wait_for_connection and then in           *)
(* composio.triggers.create, and the calls are made one after another.     *)

\* the most calls of create_trigger
NumTriggerCalls == 2

\* connection_request.wait_for_connection(timeout=30) (line 150): it
\* returns once the connection is active, or it raises, on a timeout or
\* for a connection that failed
WaitResults == {"active", "timeout", "failed"}

\* composio.triggers.create(...) (lines 163-167)
CreateResults == {"response", "raises"}

NoConfig == <<"<None>">>

\* the trigger_config of lines 152-156
DefaultTriggerConfig == <<"interval:1", "labelids:INBOX", "userId:me">>

CustomTriggerConfig == <<"interval:5", "labelids:STARRED", "userId:me">>

TriggerArguments ==
    [user_id : {<<"u", "1">>, <<"u", "2">>},
     trigger_config : {NoConfig, CustomTriggerConfig}]

\* a call of create_trigger that has just been made
Called(arguments) ==
    [user_id |-> arguments.user_id, trigger_config |-> arguments.trigger_config,
     pc |-> "called", wait |-> "none", create |-> "none", value |-> "none",
     raised |-> FALSE]

\* lines 150-156: the wait, outside the try statement, and the default of
\* trigger_config.  An exception of wait_for_connection leaves the function.
AfterWait(call, wait) ==
    IF wait = "active"
    THEN [call EXCEPT !.pc = "waited", !.wait = wait,
                      !.trigger_config = IF call.trigger_config = NoConfig
                                         THEN DefaultTriggerConfig
                                         ELSE call.trigger_config]
    ELSE [call EXCEPT !.pc = "ended", !.wait = wait, !.raised = TRUE]

\* lines 158-175: the response of composio.triggers.create is returned; an
\* exception of it is caught and None is returned
AfterCreate(call, create) ==
    [call EXCEPT !.pc = "ended", !.create = create,
                 !.value = IF create = "response" THEN "response" ELSE "None"]

LastCall == triggers[Len(triggers)]

InitTrigger ==
    /\ triggers = NoTriggerCalls
    /\ COMPOSIO_WEBHOOK_SECRET = ""
    /\ prompt = None
    /\ prompts = <<>>
    /\ slots = [r \in Slots |-> IdleSlot]
    /\ vreq = NoRequest
    /\ vres = NotVerified
    /\ npayload = NoPayload
    /\ nres = NotNormalized
    /\ dreq = NoLookup
    /\ dres = NotResolved
    /\ procs = NoProcs

\* create_trigger is called, once the call before it has ended.
CallCreateTrigger ==
    /\ Len(triggers) < NumTriggerCalls
    /\ IF triggers = <<>> THEN TRUE ELSE LastCall.pc = "ended"
    /\ \E arguments \in TriggerArguments : triggers' = Append(triggers, Called(arguments))
    /\ UNCHANGED <<COMPOSIO_WEBHOOK_SECRET, prompt, prompts, slots, vreq, vres, npayload, nres,
                   dreq, dres, procs>>

\* wait_for_connection ends.
WaitForConnection ==
    /\ triggers # <<>>
    /\ LastCall.pc = "called"
    /\ \E wait \in WaitResults :
          triggers' = [triggers EXCEPT ![Len(triggers)] = AfterWait(LastCall, wait)]
    /\ UNCHANGED <<COMPOSIO_WEBHOOK_SECRET, prompt, prompts, slots, vreq, vres, npayload, nres,
                   dreq, dres, procs>>

\* composio.triggers.create ends, and create_trigger returns.
TriggersCreate ==
    /\ triggers # <<>>
    /\ LastCall.pc = "waited"
    /\ \E create \in CreateResults :
          triggers' = [triggers EXCEPT ![Len(triggers)] = AfterCreate(LastCall, create)]
    /\ UNCHANGED <<COMPOSIO_WEBHOOK_SECRET, prompt, prompts, slots, vreq, vres, npayload, nres,
                   dreq, dres, procs>>

NextTrigger == CallCreateTrigger \/ WaitForConnection \/ TriggersCreate

SpecTrigger == InitTrigger /\ [][NextTrigger]_vars

\* C21: create_trigger returns the response of the trigger creation on
\* success and None on any failure, and never raises: for a failure of the
\* creation call, and for a failure or a timeout of the wait for the
\* connection; and the creation call is made only after the wait returned.
C21_ResponseOrNoneNeverRaises ==
    \A n \in 1..Len(triggers) :
        /\ ~ triggers[n].raised
        /\ triggers[n].pc = "ended" =>
               triggers[n].value =
                   IF triggers[n].wait = "active" /\ triggers[n].create = "response"
                   THEN "response"
                   ELSE "None"
        /\ triggers[n].create # "none" => triggers[n].wait = "active"

=============================================================================
